---- MODULE Spec2Model ----
(***************************************************************************)
(* Model of analyze_log.py: the debug-log analyser.                        *)
(*                                                                         *)
(* Text is a sequence of one-character strings; "ESC" stands for the       *)
(* character 0x1B and "mu" for the micro sign.  A float is modelled by the *)
(* exact rational <<numerator, denominator>> in lowest terms it denotes.   *)
(* Python's None is the string "None"; an uncaught ValueError or           *)
(* StatisticsError is the string "ValueError" or "StatisticsError".        *)
(***************************************************************************)
EXTENDS Integers, Sequences, FiniteSets, TLC

VARIABLES
    pc,                         \* position of the running program
    text, once, twice,          \* strip_ansi_codes: input, one pass, two passes
    time_str, time_ms,          \* parse_time_to_ms: argument and result
    times, stats,               \* compute_statistics: argument and result
    file,                       \* the log file: a sequence of lines
    pos,                        \* number of lines the running pass has read
    non_empty_blocks,           \* find_block_range: block numbers collected
    block_range,                \* main: the range handed to parse_log_file
    build_times,
    explicit_state_root_times,
    payload_to_received_times,
    block_added_times,
    built_payload_times         \* parse_log_file: block_number -> timestamp

vars == <<pc, text, once, twice, time_str, time_ms, times, stats, file, pos,
          non_empty_blocks, block_range, build_times,
          explicit_state_root_times, payload_to_received_times,
          block_added_times, built_payload_times>>

textVars == <<text, once, twice>>
timeVars == <<time_str, time_ms>>
statVars == <<times, stats>>
mainVars == <<file, pos, non_empty_blocks, block_range, build_times,
              explicit_state_root_times, payload_to_received_times,
              block_added_times, built_payload_times>>

None == "None"
ValueError == "ValueError"
StatisticsError == "StatisticsError"

(***************************************************************************)
(* Bounds of the model.                                                    *)
(***************************************************************************)
MaxText == 5
MaxToken == 4
MaxSeries == 3
MaxLines == 3

SeqsUpTo(S, n) == UNION {[1..k -> S] : k \in 0..n}

(***************************************************************************)
(* Characters and the regular-expression character classes.                *)
(***************************************************************************)
Ord(c) ==
    CASE c = "ESC" -> 27
      [] c = " " -> 32
      [] c = "." -> 46
      [] c = "0" -> 48
      [] c = "1" -> 49
      [] c = "2" -> 50
      [] c = "3" -> 51
      [] c = "5" -> 53
      [] c = "A" -> 65
      [] c = "G" -> 71
      [] c = "K" -> 75
      [] c = "M" -> 77
      [] c = "[" -> 91
      [] c = "a" -> 97
      [] c = "g" -> 103
      [] c = "m" -> 109
      [] c = "s" -> 115
      [] c = "x" -> 120
      [] c = "mu" -> 181

\* [@-Z\\-_]
IsFe(c) == Ord(c) \in (64..90) \cup (92..95)
\* [0-?]
IsParam(c) == Ord(c) \in 48..63
\* [ -/]
IsIntermediate(c) == Ord(c) \in 32..47
\* [@-~]
IsFinal(c) == Ord(c) \in 64..126
\* \d
IsDigit(c) == Ord(c) \in 48..57
\* [\d.]
IsDigitOrDot(c) == IsDigit(c) \/ c = "."

\* The first index >= i of s whose character is not in the class (Len(s)+1
\* when there is none): where a greedy star of the class stops.
RECURSIVE SkipParams(_, _)
SkipParams(s, i) ==
    IF i <= Len(s) /\ IsParam(s[i]) THEN SkipParams(s, i + 1) ELSE i

RECURSIVE SkipIntermediates(_, _)
SkipIntermediates(s, i) ==
    IF i <= Len(s) /\ IsIntermediate(s[i]) THEN SkipIntermediates(s, i + 1) ELSE i

RECURSIVE SkipDigitsDots(_, _)
SkipDigitsDots(s, i) ==
    IF i <= Len(s) /\ IsDigitOrDot(s[i]) THEN SkipDigitsDots(s, i + 1) ELSE i

RECURSIVE SkipDigits(_, _)
SkipDigits(s, i) ==
    IF i <= Len(s) /\ IsDigit(s[i]) THEN SkipDigits(s, i + 1) ELSE i

(***************************************************************************)
(* strip_ansi_codes                                                        *)
(***************************************************************************)
\* Length of the match of the ansi_escape pattern that starts at index i of
\* s, 0 when the pattern does not match there.
AnsiMatchLen(s, i) ==
    IF s[i] # "ESC" \/ i + 1 > Len(s) THEN 0
    ELSE IF IsFe(s[i + 1]) THEN 2
    ELSE IF s[i + 1] # "[" THEN 0
    ELSE LET k == SkipIntermediates(s, SkipParams(s, i + 2))
         IN  IF k <= Len(s) /\ IsFinal(s[k]) THEN k - i + 1 ELSE 0

\* ansi_escape.sub('', text) from index i on: leftmost matches, left to
\* right, not overlapping; an unmatched character is kept.
RECURSIVE AnsiSubFrom(_, _)
AnsiSubFrom(s, i) ==
    IF i > Len(s) THEN <<>>
    ELSE LET m == AnsiMatchLen(s, i)
         IN  IF m > 0 THEN AnsiSubFrom(s, i + m)
             ELSE <<s[i]>> \o AnsiSubFrom(s, i + 1)

strip_ansi_codes(s) == AnsiSubFrom(s, 1)

(***************************************************************************)
(* Floats as exact rationals.                                              *)
(***************************************************************************)
Abs(n) == IF n < 0 THEN -n ELSE n

RECURSIVE GCD(_, _)
GCD(a, b) == IF b = 0 THEN a ELSE GCD(b, a % b)

\* The rational n/d (d > 0) in lowest terms.
Rat(n, d) == LET g == GCD(Abs(n), d) IN <<n \div g, d \div g>>

RatMul(r, k) == Rat(r[1] * k, r[2])
RatDiv(r, k) == Rat(r[1], r[2] * k)
RatAdd(p, q) == Rat(p[1] * q[2] + q[1] * p[2], p[2] * q[2])
RatSub(p, q) == Rat(p[1] * q[2] - q[1] * p[2], p[2] * q[2])
RatMulRat(p, q) == Rat(p[1] * q[1], p[2] * q[2])
RatLess(p, q) == p[1] * q[2] < q[1] * p[2]

DigitValue(c) == Ord(c) - 48

\* int() of a string of decimal digits.
RECURSIVE DigitsToNat(_)
DigitsToNat(s) ==
    IF s = <<>> THEN 0
    ELSE 10 * DigitsToNat(SubSeq(s, 1, Len(s) - 1)) + DigitValue(s[Len(s)])

RECURSIVE Pow10(_)
Pow10(n) == IF n = 0 THEN 1 ELSE 10 * Pow10(n - 1)

Dots(s) == {i \in 1..Len(s) : s[i] = "."}

\* float() of a string of digits and dots: ValueError unless the string has
\* at least one digit and at most one dot.
Float(s) ==
    IF Cardinality(Dots(s)) > 1 \/ Len(s) = Cardinality(Dots(s)) THEN ValueError
    ELSE LET digits == SelectSeq(s, IsDigit)
             frac == IF Dots(s) = {} THEN 0
                     ELSE Len(s) - (CHOOSE i \in Dots(s) : TRUE)
         IN  Rat(DigitsToNat(digits), Pow10(frac))

(***************************************************************************)
(* parse_time_to_ms                                                        *)
(***************************************************************************)
RECURSIVE LStrip(_)
LStrip(s) == IF s # <<>> /\ s[1] = " " THEN LStrip(Tail(s)) ELSE s

RECURSIVE RStrip(_)
RStrip(s) ==
    IF s # <<>> /\ s[Len(s)] = " " THEN RStrip(SubSeq(s, 1, Len(s) - 1)) ELSE s

\* str.strip()
Strip(s) == RStrip(LStrip(s))

StartsWith(s, i, lit) ==
    /\ i + Len(lit) - 1 <= Len(s)
    /\ \A k \in 1..Len(lit) : s[i + k - 1] = lit[k]

\* The unit (ms|mu s|s) matched at index i of s, None when there is none.
UnitAt(s, i) ==
    IF StartsWith(s, i, <<"m", "s">>) THEN "ms"
    ELSE IF StartsWith(s, i, <<"mu", "s">>) THEN "us"
    ELSE IF StartsWith(s, i, <<"s">>) THEN "s"
    ELSE None

\* The conversion of a parsed value to milliseconds.
ToMs(value, unit) ==
    IF unit = "ms" THEN value
    ELSE IF unit = "us" THEN RatDiv(value, 1000)
    ELSE RatMul(value, 1000)

parse_time_to_ms(str) ==
    LET s == Strip(str)
        j == SkipDigitsDots(s, 1)
        unit == UnitAt(s, j)
    IN  IF j = 1 \/ unit = None THEN None
        ELSE LET value == Float(SubSeq(s, 1, j - 1))
             IN  IF value = ValueError THEN ValueError
                 ELSE ToMs(value, unit)

(***************************************************************************)
(* Specification of strip_ansi_codes applied once and twice.               *)
(***************************************************************************)
AnsiAlphabet == {"ESC", "[", "1", " ", "m", "A"}

MainIdle ==
    /\ file = <<>>
    /\ pos = 0
    /\ non_empty_blocks = <<>>
    /\ block_range = None
    /\ build_times = <<>>
    /\ explicit_state_root_times = <<>>
    /\ payload_to_received_times = <<>>
    /\ block_added_times = <<>>
    /\ built_payload_times = <<>>

TextIdle == text = <<>> /\ once = None /\ twice = None
TimeIdle == time_str = <<>> /\ time_ms = None
StatIdle == times = <<>> /\ stats = None

InitStrip ==
    /\ pc = "strip"
    /\ text \in SeqsUpTo(AnsiAlphabet, MaxText)
    /\ once = None
    /\ twice = None
    /\ TimeIdle /\ StatIdle /\ MainIdle

StripOnce ==
    /\ pc = "strip"
    /\ once' = strip_ansi_codes(text)
    /\ pc' = "strip_again"
    /\ UNCHANGED <<text, twice, timeVars, statVars, mainVars>>

StripTwice ==
    /\ pc = "strip_again"
    /\ twice' = strip_ansi_codes(once)
    /\ pc' = "stripped"
    /\ UNCHANGED <<text, once, timeVars, statVars, mainVars>>

NextStrip == StripOnce \/ StripTwice

SpecStrip == InitStrip /\ [][NextStrip]_vars

(***************************************************************************)
(* Specification of parse_time_to_ms on one token.                         *)
(***************************************************************************)
TimeAlphabet == {"1", "5", ".", "m", "mu", "s", "x", " "}

InitTime ==
    /\ pc = "parse_time"
    /\ time_str \in SeqsUpTo(TimeAlphabet, MaxToken)
    /\ time_ms = None
    /\ TextIdle /\ StatIdle /\ MainIdle

ParseTime ==
    /\ pc = "parse_time"
    /\ time_ms' = parse_time_to_ms(time_str)
    /\ pc' = IF time_ms' = ValueError THEN "raised" ELSE "returned"
    /\ UNCHANGED <<time_str, textVars, statVars, mainVars>>

NextTime == ParseTime

SpecTime == InitTime /\ [][NextTime]_vars


(***************************************************************************)
(* Log lines.  A line is its optional prefix before the timestamp (pre),   *)
(* the leading ISO timestamp (stamp: <<>> when the line has none, else     *)
(* <<t>> with t in milliseconds), the event markers its text contains and  *)
(* its key=value fields in textual order.                                  *)
(***************************************************************************)
BuiltPayload == "Built payload"
ReceivedBlock == "Received block from consensus engine"
StateRootFinished == "State root task finished"
BlockAdded == "Block added to canonical chain"

\* The order of the if/elif chain of parse_log_file.
MarkerOrder == <<BuiltPayload, ReceivedBlock, StateRootFinished, BlockAdded>>

min_gas == 1000

FirstIndex(S) == CHOOSE i \in S : \A j \in S : i <= j

\* re.search(r'number\s*=\s*(\d+)', clean_line): the digits of the first
\* field whose text "<key>=<value>" contains the pattern, so a key that ends
\* with "number" matches too.
number_search(line) ==
    LET kv == line.kv
        S == {i \in 1..Len(kv) : /\ kv[i][1] \in {"number", "parent_number"}
                                 /\ SkipDigits(kv[i][2], 1) > 1}
    IN  IF S = {} THEN None
        ELSE LET v == kv[FirstIndex(S)][2] IN SubSeq(v, 1, SkipDigits(v, 1) - 1)

\* re.search(r'parent_number\s*=\s*(\d+)', clean_line)
parent_number_search(line) ==
    LET kv == line.kv
        S == {i \in 1..Len(kv) : /\ kv[i][1] = "parent_number"
                                 /\ SkipDigits(kv[i][2], 1) > 1}
    IN  IF S = {} THEN None
        ELSE LET v == kv[FirstIndex(S)][2] IN SubSeq(v, 1, SkipDigits(v, 1) - 1)

\* The groups <<value, unit>> of ([\d.]+)([KMG]?)gas matched at the start of
\* v, None when it does not match.
GasGroups(v) ==
    LET j == SkipDigitsDots(v, 1)
        u == IF j <= Len(v) /\ v[j] \in {"K", "M", "G"} THEN j + 1 ELSE j
    IN  IF j > 1 /\ StartsWith(v, u, <<"g", "a", "s">>)
        THEN <<SubSeq(v, 1, j - 1), SubSeq(v, j, u - 1)>>
        ELSE None

\* re.search(r'gas_used\s*=\s*([\d.]+)([KMG]?)gas', clean_line)
gas_used_search(line) ==
    LET kv == line.kv
        S == {i \in 1..Len(kv) : kv[i][1] = "gas_used" /\ GasGroups(kv[i][2]) # None}
    IN  IF S = {} THEN None ELSE GasGroups(kv[FirstIndex(S)][2])

\* The group of ([\d.]+(?:ms|mu s|s)) matched at the start of v, or None.
ElapsedGroup(v) ==
    LET j == SkipDigitsDots(v, 1)
        unit == UnitAt(v, j)
    IN  IF j = 1 \/ unit = None THEN None
        ELSE SubSeq(v, 1, IF unit = "s" THEN j ELSE j + 1)

\* re.search(r'elapsed\s*=\s*([\d.]+(?:ms|mu s|s))', clean_line)
elapsed_search(line) ==
    LET kv == line.kv
        S == {i \in 1..Len(kv) : kv[i][1] = "elapsed" /\ ElapsedGroup(kv[i][2]) # None}
    IN  IF S = {} THEN None ELSE ElapsedGroup(kv[FirstIndex(S)][2])

\* parse_timestamp: the timestamp pattern is anchored at the start of the
\* line once its ANSI codes are stripped.
parse_timestamp(line) ==
    IF strip_ansi_codes(line.pre) = <<>> /\ line.stamp # <<>> THEN line.stamp
    ELSE None

(***************************************************************************)
(* find_block_range                                                        *)
(***************************************************************************)
\* gas_val scaled by the magnitude suffix.
GasUsed(gas_val, gas_unit) ==
    IF gas_unit = <<"K">> THEN RatMul(gas_val, 1000)
    ELSE IF gas_unit = <<"M">> THEN RatMul(gas_val, 1000000)
    ELSE IF gas_unit = <<"G">> THEN RatMul(gas_val, 1000000000)
    ELSE gas_val

IsNonEmptyOrEqual(gas_used) == ~RatLess(gas_used, <<min_gas, 1>>)

\* gas_used > min_gas
IsNonEmpty(gas_used) == RatLess(<<min_gas, 1>>, gas_used)

\* The body of the loop of find_block_range for one line: the new value of
\* non_empty_blocks, or ValueError when float() raises.
RangeStep(blocks, line) ==
    LET num_match == number_search(line)
        gas_match == gas_used_search(line)
    IN  IF BlockAdded \in line.markers /\ num_match # None /\ gas_match # None
        THEN LET block_num == DigitsToNat(num_match)
                 gas_val == Float(gas_match[1])
             IN  IF gas_val = ValueError THEN ValueError
                 ELSE IF IsNonEmpty(GasUsed(gas_val, gas_match[2]))
                      THEN Append(blocks, block_num)
                      ELSE blocks
        ELSE blocks

\* The tuple (None, None).
NonePair == <<>>

RangeReturnTrimTwo(blocks) ==
    IF Len(blocks) >= 2 THEN <<blocks[1] + 1, blocks[Len(blocks)] - 1>>
    ELSE IF blocks # <<>> THEN <<blocks[1], blocks[Len(blocks)]>>
    ELSE NonePair

\* The return statements of find_block_range.
RangeReturn(blocks) ==
    IF Len(blocks) >= 3 THEN <<blocks[1] + 1, blocks[Len(blocks)] - 1>>
    ELSE IF blocks # <<>> THEN <<blocks[1], blocks[Len(blocks)]>>
    ELSE NonePair

(***************************************************************************)
(* parse_log_file                                                          *)
(***************************************************************************)
TakesIf(line, marker) == marker \in line.markers

\* Whether the branch of the if/elif chain for the marker is taken: the
\* marker is in the line and no earlier marker of the chain is.
Takes(line, marker) ==
    /\ marker \in line.markers
    /\ \A i \in 1..Len(MarkerOrder) :
          (\E j \in (i + 1)..Len(MarkerOrder) : MarkerOrder[j] = marker)
              => MarkerOrder[i] \notin line.markers

InRangeAlways(range, block_number) == TRUE

\* block_range is None or (block_range[0] <= block_number <= block_range[1])
InRange(range, block_number) ==
    range = None \/ (range[1] <= block_number /\ block_number <= range[2])

\* built_payload_times[block_number] = timestamp
Put(pending, block_number, timestamp) ==
    [k \in DOMAIN pending \cup {block_number} |->
        IF k = block_number THEN timestamp ELSE pending[k]]

DelNothing(pending, block_number) == pending

\* del built_payload_times[block_number]
Del(pending, block_number) ==
    [k \in DOMAIN pending \ {block_number} |-> pending[k]]

\* time_ms = parse_time_to_ms(match.group(1)); if time_ms is not None:
\* series.append(time_ms).  ValueError when parse_time_to_ms raises.
AppendTime(series, match) ==
    LET ms == parse_time_to_ms(match)
    IN  IF ms = ValueError THEN ValueError
        ELSE IF ms = None THEN series
        ELSE Append(series, ms)

\* The "Built payload" branch: the pending map after the line.
BuiltPending(pending, line, timestamp) ==
    LET parent_match == parent_number_search(line)
    IN  IF parent_match # None /\ timestamp # None
        THEN LET block_number == DigitsToNat(parent_match) + 1
             IN  IF block_number # 1 THEN Put(pending, block_number, timestamp)
                 ELSE pending
        ELSE pending

\* The "Built payload" branch: build_times after the line, or ValueError.
BuiltTimes(series, line, range) ==
    LET parent_match == parent_number_search(line)
        match == elapsed_search(line)
    IN  IF match # None /\ parent_match # None
           /\ InRange(range, DigitsToNat(parent_match) + 1)
        THEN AppendTime(series, match)
        ELSE series

\* The "Received block" branch: whether the line records a latency.
ReceivedHit(pending, line, timestamp, range) ==
    LET number_match == number_search(line)
    IN  /\ number_match # None
        /\ timestamp # None
        /\ LET block_number == DigitsToNat(number_match)
           IN  /\ block_number # 1
               /\ block_number \in DOMAIN pending
               /\ InRange(range, block_number)

\* (timestamp - start_time).total_seconds() * 1000
ElapsedMs(timestamp, start_time) == Rat(timestamp[1] - start_time[1], 1)

ReceivedTimes(series, pending, line, timestamp, range) ==
    IF ReceivedHit(pending, line, timestamp, range)
    THEN Append(series,
                ElapsedMs(timestamp, pending[DigitsToNat(number_search(line))]))
    ELSE series

ReceivedPending(pending, line, timestamp, range) ==
    IF ReceivedHit(pending, line, timestamp, range)
    THEN Del(pending, DigitsToNat(number_search(line)))
    ELSE pending

\* The "State root task finished" branch.
StateRootTimes(series, line) ==
    LET match == elapsed_search(line)
    IN  IF match # None THEN AppendTime(series, match) ELSE series

\* The "Block added to canonical chain" branch.
BlockAddedTimes(series, line, range) ==
    LET number_match == number_search(line)
        match == elapsed_search(line)
    IN  IF match # None /\ number_match # None
           /\ InRange(range, DigitsToNat(number_match))
        THEN AppendTime(series, match)
        ELSE series

(***************************************************************************)
(* compute_statistics                                                      *)
(***************************************************************************)
\* None, as a record so that it compares with the dictionary of statistics.
NoStats == [none |-> TRUE]

RECURSIVE Sum(_)
Sum(s) == IF s = <<>> THEN <<0, 1>> ELSE RatAdd(s[1], Sum(Tail(s)))

\* statistics.mean
mean(s) == RatDiv(Sum(s), Len(s))

RECURSIVE Insert(_, _)
Insert(x, s) ==
    IF s = <<>> THEN <<x>>
    ELSE IF RatLess(s[1], x) THEN <<s[1]>> \o Insert(x, Tail(s))
    ELSE <<x>> \o s

RECURSIVE Sorted(_)
Sorted(s) == IF s = <<>> THEN <<>> ELSE Insert(s[1], Sorted(Tail(s)))

\* statistics.median: the middle value, or the mean of the two middle ones.
median(s) ==
    LET d == Sorted(s)
        n == Len(s)
    IN  IF n % 2 = 1 THEN d[(n + 1) \div 2]
        ELSE RatDiv(RatAdd(d[n \div 2], d[n \div 2 + 1]), 2)

\* min() and max()
min(s) == Sorted(s)[1]
max(s) == Sorted(s)[Len(s)]

RECURSIVE SumSquares(_, _)
SumSquares(s, m) ==
    IF s = <<>> THEN <<0, 1>>
    ELSE LET d == RatSub(s[1], m)
         IN  RatAdd(RatMulRat(d, d), SumSquares(Tail(s), m))

IsSquare(n) == \E k \in 0..n : k * k = n
Root(n) == CHOOSE k \in 0..n : k * k = n

\* math.sqrt of a rational: exact when it is rational, else the symbolic
\* root <<numerator, denominator, "sqrt">>.
Sqrt(v) ==
    IF IsSquare(v[1]) /\ IsSquare(v[2]) THEN <<Root(v[1]), Root(v[2])>>
    ELSE <<v[1], v[2], "sqrt">>

\* statistics.stdev: the sample standard deviation; StatisticsError when
\* there are fewer than two data points.
stdev(s) ==
    IF Len(s) < 2 THEN StatisticsError
    ELSE Sqrt(RatDiv(SumSquares(s, mean(s)), Len(s) - 1))

StdDevUnguarded(s) == stdev(s)

\* stdev(times) if len(times) > 1 else 0.0
StdDev(s) == IF Len(s) > 1 THEN stdev(s) ELSE <<0, 1>>

compute_statistics(s) ==
    IF s = <<>> THEN NoStats
    ELSE [count |-> Len(s), mean |-> mean(s), median |-> median(s),
          min |-> min(s), max |-> max(s), std_dev |-> StdDev(s)]

\* Whether compute_statistics raises instead of returning.
StatisticsRaises(s) == s # <<>> /\ StdDev(s) = StatisticsError

(***************************************************************************)
(* Specification of compute_statistics on one series.                      *)
(***************************************************************************)
StatValues == {<<1, 1>>, <<5, 1>>, <<5, 2>>, <<3, 4>>}

InitStats ==
    /\ pc = "compute_statistics"
    /\ times \in SeqsUpTo(StatValues, MaxSeries)
    /\ stats = NoStats
    /\ TextIdle /\ TimeIdle /\ MainIdle

ComputeStatistics ==
    /\ pc = "compute_statistics"
    /\ IF StatisticsRaises(times)
       THEN pc' = "raised" /\ UNCHANGED stats
       ELSE pc' = "returned" /\ stats' = compute_statistics(times)
    /\ UNCHANGED <<times, textVars, timeVars, mainVars>>

NextStats == ComputeStatistics

SpecStats == InitStats /\ [][NextStats]_vars

(***************************************************************************)
(* The log lines the file is made of.                                      *)
(***************************************************************************)
Colour == <<"ESC", "[", "1", "m">>

Line(pre, stamp, markers, kv) ==
    [pre |-> pre, stamp |-> stamp, markers |-> markers, kv |-> kv]

Number(v) == <<"number", v>>
Parent(v) == <<"parent_number", v>>
Gas(v) == <<"gas_used", v>>
Elapsed(v) == <<"elapsed", v>>

BlockAddedLines ==
    { Line(<<>>, <<4>>, {BlockAdded},
           <<Number(<<"1">>), Gas(<<"2", "K", "g", "a", "s">>), Elapsed(<<"5", "m", "s">>)>>),
      Line(<<>>, <<4>>, {BlockAdded},
           <<Number(<<"2">>), Gas(<<"1", ".", "5", "K", "g", "a", "s">>),
             Elapsed(<<"0", ".", "0", "0", "2", "s">>)>>),
      Line(Colour, <<4>>, {BlockAdded},
           <<Number(<<"3">>), Gas(<<"1", "M", "g", "a", "s">>), Elapsed(<<"5", "0", "0", "mu", "s">>)>>),
      \* gas used exactly at the threshold
      Line(<<>>, <<4>>, {BlockAdded},
           <<Number(<<"2">>), Gas(<<"1", "0", "0", "0", "g", "a", "s">>),
             Elapsed(<<"2", "m", "s">>)>>),
      \* gas value that is digits and dots but no number
      Line(<<>>, <<4>>, {BlockAdded},
           <<Number(<<"2">>), Gas(<<"1", ".", ".", "K", "g", "a", "s">>),
             Elapsed(<<"2", "m", "s">>)>>) }

BuiltPayloadLines ==
    { Line(<<>>, <<1>>, {BuiltPayload},
           <<Parent(<<"0">>), Elapsed(<<"5", "m", "s">>)>>),
      Line(Colour, <<1>>, {BuiltPayload},
           <<Parent(<<"1">>), Elapsed(<<"2", "m", "s">>)>>),
      Line(<<>>, <<2>>, {BuiltPayload},
           <<Parent(<<"2">>), Elapsed(<<"1", ".", "5", "m", "s">>)>>),
      \* no timestamp
      Line(<<>>, <<>>, {BuiltPayload},
           <<Parent(<<"1">>), Elapsed(<<"3", "m", "s">>)>>),
      \* elapsed value that is digits and dots but no number
      Line(<<>>, <<1>>, {BuiltPayload},
           <<Parent(<<"1">>), Elapsed(<<"1", ".", ".", "m", "s">>)>>) }

ReceivedBlockLines ==
    { Line(Colour, <<3>>, {ReceivedBlock}, <<Number(<<"2">>)>>),
      Line(<<>>, <<3>>, {ReceivedBlock}, <<Number(<<"3">>)>>),
      \* text before the timestamp: no timestamp is found
      Line(<<"x">>, <<3>>, {ReceivedBlock}, <<Number(<<"2">>)>>) }

OtherLines ==
    { Line(<<>>, <<2>>, {StateRootFinished}, <<Elapsed(<<"5", "m", "s">>)>>),
      \* a line with two markers
      Line(<<>>, <<1>>, {BuiltPayload, BlockAdded},
           <<Number(<<"2">>), Parent(<<"1">>), Gas(<<"2", "K", "g", "a", "s">>),
             Elapsed(<<"5", "m", "s">>)>>),
      \* no marker
      Line(<<>>, <<2>>, {}, <<Number(<<"2">>), Elapsed(<<"5", "m", "s">>)>>) }

Lines == BlockAddedLines \cup BuiltPayloadLines \cup ReceivedBlockLines \cup OtherLines

(***************************************************************************)
(* Specification of main: find_block_range, then parse_log_file, over the  *)
(* same file.                                                              *)
(***************************************************************************)
Init ==
    /\ pc = "find_block_range"
    /\ file \in SeqsUpTo(Lines, MaxLines)
    /\ pos = 0
    /\ non_empty_blocks = <<>>
    /\ block_range = None
    /\ build_times = <<>>
    /\ explicit_state_root_times = <<>>
    /\ payload_to_received_times = <<>>
    /\ block_added_times = <<>>
    /\ built_payload_times = <<>>
    /\ stats = NoStats
    /\ times = <<>>
    /\ TextIdle /\ TimeIdle

seriesVars == <<build_times, explicit_state_root_times,
                payload_to_received_times, block_added_times>>

\* One iteration of the loop of find_block_range.
FindRangeLine ==
    /\ pc = "find_block_range"
    /\ pos < Len(file)
    /\ RangeStep(non_empty_blocks, file[pos + 1]) # ValueError
    /\ non_empty_blocks' = RangeStep(non_empty_blocks, file[pos + 1])
    /\ pos' = pos + 1
    /\ UNCHANGED <<pc, file, block_range, seriesVars, built_payload_times,
                   textVars, timeVars, statVars>>

\* float(gas_match.group(1)) raises: the exception leaves main.
FindRangeRaises ==
    /\ pc = "find_block_range"
    /\ pos < Len(file)
    /\ RangeStep(non_empty_blocks, file[pos + 1]) = ValueError
    /\ pc' = "raised"
    /\ UNCHANGED <<file, pos, non_empty_blocks, block_range, seriesVars,
                   built_payload_times, textVars, timeVars, statVars>>

\* find_block_range returns and main sets block_range.
FindRangeReturn ==
    /\ pc = "find_block_range"
    /\ pos = Len(file)
    /\ LET first_last == RangeReturn(non_empty_blocks)
       IN  block_range' = IF first_last # NonePair THEN first_last ELSE None
    /\ pc' = "parse_log_file"
    /\ pos' = 0
    /\ UNCHANGED <<file, non_empty_blocks, seriesVars, built_payload_times,
                   textVars, timeVars, statVars>>

\* The values after one iteration of the loop of parse_log_file on the line;
\* a series is ValueError when parse_time_to_ms raised in its branch.
LineEffect(line) ==
    LET timestamp == parse_timestamp(line)
        built == Takes(line, BuiltPayload)
        received == Takes(line, ReceivedBlock)
        state_root == Takes(line, StateRootFinished)
        added == Takes(line, BlockAdded)
        pending1 == IF built
                    THEN BuiltPending(built_payload_times, line, timestamp)
                    ELSE built_payload_times
    IN  [build_times |->
            IF built THEN BuiltTimes(build_times, line, block_range)
            ELSE build_times,
         payload_to_received_times |->
            IF received
            THEN ReceivedTimes(payload_to_received_times, pending1, line,
                               timestamp, block_range)
            ELSE payload_to_received_times,
         built_payload_times |->
            IF received
            THEN ReceivedPending(pending1, line, timestamp, block_range)
            ELSE pending1,
         explicit_state_root_times |->
            IF state_root THEN StateRootTimes(explicit_state_root_times, line)
            ELSE explicit_state_root_times,
         block_added_times |->
            IF added THEN BlockAddedTimes(block_added_times, line, block_range)
            ELSE block_added_times]

LineRaises(line) ==
    LET e == LineEffect(line)
    IN  \/ e.build_times = ValueError
        \/ e.explicit_state_root_times = ValueError
        \/ e.block_added_times = ValueError

\* One iteration of the loop of parse_log_file.
ParseLine ==
    /\ pc = "parse_log_file"
    /\ pos < Len(file)
    /\ ~LineRaises(file[pos + 1])
    /\ LET e == LineEffect(file[pos + 1])
       IN  /\ build_times' = e.build_times
           /\ payload_to_received_times' = e.payload_to_received_times
           /\ built_payload_times' = e.built_payload_times
           /\ explicit_state_root_times' = e.explicit_state_root_times
           /\ block_added_times' = e.block_added_times
    /\ pos' = pos + 1
    /\ UNCHANGED <<pc, file, non_empty_blocks, block_range, textVars,
                   timeVars, statVars>>

\* parse_time_to_ms raises: the exception leaves main; the pending map keeps
\* the entry the line recorded before.
ParseLineRaises ==
    /\ pc = "parse_log_file"
    /\ pos < Len(file)
    /\ LineRaises(file[pos + 1])
    /\ built_payload_times' = LineEffect(file[pos + 1]).built_payload_times
    /\ pc' = "raised"
    /\ UNCHANGED <<file, pos, non_empty_blocks, block_range, seriesVars,
                   textVars, timeVars, statVars>>

MetricSeries ==
    <<build_times, payload_to_received_times, explicit_state_root_times,
      block_added_times>>

\* parse_log_file returns and build_summary computes the four statistics.
ParseReturn ==
    /\ pc = "parse_log_file"
    /\ pos = Len(file)
    /\ pc' = "done"
    /\ stats' = [m \in 1..4 |-> compute_statistics(MetricSeries[m])]
    /\ UNCHANGED <<file, pos, non_empty_blocks, block_range, seriesVars,
                   built_payload_times, times, textVars, timeVars>>

Next ==
    \/ FindRangeLine
    \/ FindRangeRaises
    \/ FindRangeReturn
    \/ ParseLine
    \/ ParseLineRaises
    \/ ParseReturn

Spec == Init /\ [][Next]_vars

(***************************************************************************)
(* Properties.                                                             *)
(***************************************************************************)
\* The event a line is, by the first marker of the chain it contains.
EventKind(line) ==
    IF BuiltPayload \in line.markers THEN "built"
    ELSE IF ReceivedBlock \in line.markers THEN "received"
    ELSE IF StateRootFinished \in line.markers THEN "state_root"
    ELSE IF BlockAdded \in line.markers THEN "added"
    ELSE "other"

\* The block number of an event as a one-element set, {} when the line
\* carries none: parent_number + 1 for a Built payload event.
EventBlock(line) ==
    IF EventKind(line) = "built"
    THEN IF parent_number_search(line) = None THEN {}
         ELSE {DigitsToNat(parent_number_search(line)) + 1}
    ELSE IF number_search(line) = None THEN {}
         ELSE {DigitsToNat(number_search(line))}

\* The line parse_log_file is about to process.
Parsing == pc = "parse_log_file" /\ pos < Len(file)
Current == file[pos + 1]

\* The file-order list of the block numbers of the Block added lines whose
\* gas used is strictly above 1000.
RECURSIVE NonEmptyList(_)
NonEmptyList(f) ==
    IF f = <<>> THEN <<>>
    ELSE LET line == f[Len(f)]
             rest == NonEmptyList(SubSeq(f, 1, Len(f) - 1))
             gas == gas_used_search(line)
         IN  IF /\ BlockAdded \in line.markers
                /\ number_search(line) # None
                /\ gas # None
                /\ Float(gas[1]) # ValueError
                /\ LET g == GasUsed(Float(gas[1]), gas[2]) IN g[1] > 1000 * g[2]
             THEN Append(rest, DigitsToNat(number_search(line)))
             ELSE rest

Within(range, b) == range[1] <= b /\ b <= range[2]

\* C2: stripping ANSI codes is idempotent: a second pass changes nothing.
C2_StripIdempotent == pc = "stripped" => twice = once

\* C3: parse_time_to_ms never raises; a token that is not exactly
\* <number><unit> yields None and a well-formed one its value in ms.
C3_ParseTimeTotal ==
    pc \in {"returned", "raised"} =>
        LET s == Strip(time_str)
            j == SkipDigitsDots(s, 1)
            number == SubSeq(s, 1, j - 1)
            unit == SubSeq(s, j, Len(s))
            wellFormed == /\ Float(number) # ValueError
                          /\ unit \in {<<"s">>, <<"m", "s">>, <<"mu", "s">>}
        IN  /\ time_ms # ValueError
            /\ ~wellFormed => time_ms = None
            /\ wellFormed /\ unit = <<"s">> => time_ms = RatMul(Float(number), 1000)
            /\ wellFormed /\ unit = <<"m", "s">> => time_ms = Float(number)
            /\ wellFormed /\ unit = <<"mu", "s">> => time_ms = RatDiv(Float(number), 1000)

\* C1: a Built payload line with parent_number 0 (block 1) changes neither
\* build_times nor the pending map.
C1_BlockOneIgnored ==
    [][(Parsing /\ EventKind(Current) = "built" /\ EventBlock(Current) = {1})
          => (build_times' = build_times
              /\ built_payload_times' = built_payload_times)]_vars

\* C4: both passes run to completion on every file: no line aborts a pass.
C4_NeverAborts == pc # "raised"

\* C5: the range find_block_range yields is the positional trim of the list
\* of non-empty block numbers; with an empty list no range is active and the
\* extraction pass drops no Built payload or Block added measurement.
C5_RangePolicy ==
    pc \in {"parse_log_file", "done"} =>
        LET L == NonEmptyList(file)
            n == Len(L)
        IN  /\ n >= 3 => <<L[1] + 1, L[n] - 1>> = block_range
            /\ n \in {1, 2} => <<L[1], L[n]>> = block_range
            /\ n = 0 => block_range = None
            /\ (n = 0 /\ pc = "done") =>
                  /\ Len(build_times) =
                        Cardinality({i \in 1..Len(file) :
                            /\ EventKind(file[i]) = "built"
                            /\ EventBlock(file[i]) # {}
                            /\ elapsed_search(file[i]) # None})
                  /\ Len(block_added_times) =
                        Cardinality({i \in 1..Len(file) :
                            /\ EventKind(file[i]) = "added"
                            /\ EventBlock(file[i]) # {}
                            /\ elapsed_search(file[i]) # None})

C5_Witness ==
    /\ pc = "done"
    /\ Len(NonEmptyList(file)) = 3
    /\ NonEmptyList(file)[1] = 1
    /\ NonEmptyList(file)[2] = 3
    /\ <<2, 1>> = block_range

\* C6: compute_statistics returns None exactly for the empty series; else
\* count is the length, min and max are the smallest and largest elements,
\* and a one-element series has mean = median = min = max = its element and
\* std_dev 0.0; it never raises.
C6_Statistics ==
    pc \in {"returned", "raised"} =>
        /\ pc = "returned"
        /\ (stats = NoStats) <=> (times = <<>>)
        /\ times # <<>> =>
              /\ stats.count = Len(times)
              /\ \E i \in 1..Len(times) : stats.min = times[i]
              /\ \E i \in 1..Len(times) : stats.max = times[i]
              /\ \A i \in 1..Len(times) :
                    /\ ~RatLess(times[i], stats.min)
                    /\ ~RatLess(stats.max, times[i])
        /\ Len(times) = 1 =>
              /\ stats.mean = times[1]
              /\ stats.median = times[1]
              /\ stats.min = times[1]
              /\ stats.max = times[1]
              /\ stats.std_dev = <<0, 1>>

C6_Witness ==
    /\ pc = "returned"
    /\ times = <<(<<5, 2>>)>>
    /\ stats.count = 1
    /\ stats.std_dev = <<0, 1>>

\* The timestamped Built payload events for blocks other than 1 among the
\* first n lines of the file.
TimestampedBuilt(n) ==
    {i \in 1..n : /\ EventKind(file[i]) = "built"
                  /\ parse_timestamp(file[i]) # None
                  /\ EventBlock(file[i]) \notin {{}, {1}}}

\* C7: a latency is appended only by a Received event whose block has a
\* pending entry, and appending it removes the entry; so there are never
\* more latencies than timestamped Built payload events for blocks other
\* than 1.
C7_ConsumedOnce ==
    /\ [](pc \in {"parse_log_file", "done"}
            => Len(payload_to_received_times) <= Cardinality(TimestampedBuilt(pos)))
    /\ [][(Parsing /\ payload_to_received_times' # payload_to_received_times)
            => /\ EventKind(Current) = "received"
               /\ Len(payload_to_received_times') = Len(payload_to_received_times) + 1
               /\ EventBlock(Current) \subseteq DOMAIN built_payload_times
               /\ EventBlock(Current) \cap DOMAIN built_payload_times' = {}]_vars

\* A Built payload for block 2, then two Received events for block 2: the
\* second finds no entry.
C7_Witness ==
    /\ pc = "done"
    /\ Len(file) = 3
    /\ EventKind(file[1]) = "built"
    /\ EventKind(file[2]) = "received"
    /\ file[3] = file[2]
    /\ Len(payload_to_received_times) = 1
    /\ DOMAIN built_payload_times = {}

\* C8: with a range active, a value is appended to build_times,
\* payload_to_received_times or block_added_times only by an event of that
\* kind whose block number is within the range, and a Received event with a
\* block number outside the range leaves the pending map as it is.
C8_RangeFilter ==
    [][(Parsing /\ block_range # None)
          => LET kind == EventKind(Current)
                 inside == \E b \in EventBlock(Current) : Within(block_range, b)
             IN  /\ build_times' # build_times => kind = "built" /\ inside
                 /\ payload_to_received_times' # payload_to_received_times
                       => kind = "received" /\ inside
                 /\ block_added_times' # block_added_times
                       => kind = "added" /\ inside
                 /\ (kind = "received" /\ ~inside)
                       => built_payload_times' = built_payload_times]_vars

\* Range (2, 2): the Built payload for block 3 is pending and outside the
\* range, and the Received event for block 3 left its entry in place.
C8_Witness ==
    /\ pc = "done"
    /\ <<2, 2>> = block_range
    /\ Len(file) = 3
    /\ EventKind(file[2]) = "built"
    /\ EventKind(file[3]) = "received"
    /\ EventBlock(file[3]) = {3}
    /\ DOMAIN built_payload_times = {3}
    /\ payload_to_received_times = <<>>
    /\ build_times = <<>>
    /\ Len(block_added_times) = 1

SeriesTotal(b, r, e, a) == Len(b) + Len(r) + Len(e) + Len(a)

\* C9: processing a line appends at most one value across the four series,
\* and changes no series but the one of the first marker the line contains.
C9_FirstMatchWins ==
    [][Parsing
          => LET kind == EventKind(Current)
             IN  /\ SeriesTotal(build_times', payload_to_received_times',
                                explicit_state_root_times', block_added_times')
                       <= SeriesTotal(build_times, payload_to_received_times,
                                      explicit_state_root_times, block_added_times) + 1
                 /\ kind # "built" => build_times' = build_times
                 /\ kind # "received"
                       => payload_to_received_times' = payload_to_received_times
                 /\ kind # "state_root"
                       => explicit_state_root_times' = explicit_state_root_times
                 /\ kind # "added" => block_added_times' = block_added_times]_vars

\* A line with the Built payload and the Block added markers went to
\* build_times only.
C9_Witness ==
    /\ pc = "done"
    /\ Len(file) = 1
    /\ file[1].markers = {BuiltPayload, BlockAdded}
    /\ <<2, 2>> = block_range
    /\ Len(build_times) = 1
    /\ block_added_times = <<>>

\* C10 as stated: a present range has first <= last for every log.
C10_RangeWellFormed == block_range # None => block_range[1] <= block_range[2]

StrictlyAscending(L) == \A i \in 1..(Len(L) - 1) : L[i] < L[i + 1]

\* C10, amended: a present range has first <= last whenever the non-empty
\* block numbers appear in strictly ascending file order.
C10_RangeWellFormedAscending ==
    (block_range # None /\ StrictlyAscending(NonEmptyList(file)))
        => block_range[1] <= block_range[2]

C10_Witness ==
    /\ pc = "done"
    /\ NonEmptyList(file) = <<1, 2, 3>>
    /\ <<2, 2>> = block_range
====
